---- MODULE Spec2Model ----
(***************************************************************************)
(* Model of src/data/assign.py: the choir rota scheduler                   *)
(* (solve_choir_assignment), the statistics pass                           *)
(* (generate_and_save_summary_stats) and the __main__ sequence.            *)
(*                                                                         *)
(* A Python string is modelled as a sequence of tokens; a token is a chunk *)
(* of text that the string operations of the program never cut (a name, a  *)
(* slot label, one separator character).  A missing value (pandas NaN) is  *)
(* the reserved one-token string NaN.  A DataFrame is the sequence of its  *)
(* rows.                                                                   *)
(***************************************************************************)
EXTENDS Integers, Sequences, FiniteSets, TLC

VARIABLES
    rawCols,              \* columns of data/responses.csv
    rawRecords,           \* rows of data/responses.csv, in file order
    pc,                   \* position of the program
    sched_result,         \* what solve_choir_assignment returned
    avail_df,             \* the exploded availability rows
    assignment_counts,    \* pd.Series name -> count
    all_slots_sorted,     \* the slots in processing order
    cursor,               \* number of (slot, part) iterations completed
    final_assignment_df,  \* slot -> part -> cell text (NaN when never set)
    assignment_file,      \* choir_assignment.csv on disk
    stats_result,         \* what generate_and_save_summary_stats did
    stats_file            \* assignment_summary_stats_by_part.csv on disk

vars == <<rawCols, rawRecords, pc, sched_result, avail_df, assignment_counts,
          all_slots_sorted, cursor, final_assignment_df, assignment_file,
          stats_result, stats_file>>

(***************************************************************************)
(* Program constants                                                       *)
(***************************************************************************)
NAME_COL == "Name and Part"
PART_COL == "part"
AVAIL_COL == "Please select dates and times you are available on:"
CHOIR_PARTS == <<"Soprano", "Alto", "Tenor", "Bass">>
RequiredCols == {NAME_COL, PART_COL, AVAIL_COL}
MaxPerCell == 3
YEAR == 2025

(***************************************************************************)
(* Strings                                                                 *)
(***************************************************************************)
NaN == <<"{nan}">>
COMMA == ","
NL == "{newline}"
SP == " "
EmptyStr == <<>>

SeqToSet(s) == {s[i] : i \in DOMAIN s}

\* concatenation of a sequence of sequences
RECURSIVE Flatten(_)
Flatten(ss) == IF ss = <<>> THEN <<>> ELSE Head(ss) \o Flatten(Tail(ss))

\* s.split(sep): the pieces between the occurrences of sep, empty pieces kept
RECURSIVE StrSplit(_, _)
StrSplit(s, sep) ==
    IF \A i \in DOMAIN s : s[i] # sep
    THEN <<s>>
    ELSE LET i == CHOOSE k \in DOMAIN s :
                      s[k] = sep /\ \A j \in 1..(k - 1) : s[j] # sep
         IN  <<SubSeq(s, 1, i - 1)>> \o StrSplit(SubSeq(s, i + 1, Len(s)), sep)

\* sep.join(strs)
RECURSIVE StrJoin(_, _)
StrJoin(strs, sep) ==
    IF strs = <<>> THEN EmptyStr
    ELSE IF Len(strs) = 1 THEN strs[1]
    ELSE strs[1] \o <<sep>> \o StrJoin(Tail(strs), sep)

RECURSIVE LStrip(_)
LStrip(s) == IF s # <<>> /\ Head(s) = SP THEN LStrip(Tail(s)) ELSE s

RECURSIVE RStrip(_)
RStrip(s) ==
    IF s # <<>> /\ s[Len(s)] = SP THEN RStrip(SubSeq(s, 1, Len(s) - 1)) ELSE s

\* Series.str.strip(): NaN stays NaN
StrStrip(s) == IF s = NaN THEN NaN ELSE RStrip(LStrip(s))

\* the distinct elements of a sequence in order of first appearance
Unique(s) ==
    LET IsFirst(i) == \A j \in 1..(i - 1) : s[j] # s[i]
        firsts     == SelectSeq([i \in DOMAIN s |-> i], IsFirst)
    IN  [k \in DOMAIN firsts |-> s[firsts[k]]]

(***************************************************************************)
(* Slot labels and parse_slot_to_datetime                                  *)
(***************************************************************************)
\* the blank-separated words inside a label token
Words(tok) ==
    CASE tok = "Sat 15th Nov 9am"   -> <<"Sat", "15th", "Nov", "9am">>
      [] tok = "Sun 16th Nov 2pm"   -> <<"Sun", "16th", "Nov", "2pm">>
      [] tok = "Mon 17th Nov 9am"   -> <<"Mon", "17th", "Nov", "9am">>
      [] tok = "Tues 18th Nov 12pm" -> <<"Tues", "18th", "Nov", "12pm">>
      [] tok = "Tues 18th Nov 2pm"  -> <<"Tues", "18th", "Nov", "2pm">>
      [] tok = "Weds 19th Nov 11am" -> <<"Weds", "19th", "Nov", "11am">>
      [] tok = "Mon 31st Nov 9am"   -> <<"Mon", "31st", "Nov", "9am">>
      [] tok = "18th Nov 2pm"       -> <<"18th", "Nov", "2pm">>
      [] tok = "Garbage Label"      -> <<"Garbage", "Label">>
      [] OTHER                      -> <<tok>>

\* the text of a string with the blanks inside its tokens made explicit
Spell(s) == Flatten([i \in DOMAIN s |-> StrJoin([w \in DOMAIN Words(s[i]) |-> <<Words(s[i])[w]>>], SP)])

\* re.sub(r'(\d+)(st|nd|rd|th)', r'\1', .) on one word
StripOrdinal(w) ==
    CASE w = "15th" -> "15"
      [] w = "16th" -> "16"
      [] w = "17th" -> "17"
      [] w = "18th" -> "18"
      [] w = "19th" -> "19"
      [] w = "31st" -> "31"
      [] OTHER      -> w

\* %d: the day number a word spells, 0 when it is no day number
DayOf(w) ==
    CASE w = "15" -> 15
      [] w = "16" -> 16
      [] w = "17" -> 17
      [] w = "18" -> 18
      [] w = "19" -> 19
      [] w = "31" -> 31
      [] OTHER    -> 0

\* %b: the month a word abbreviates, 0 when none
MonthOf(w) ==
    CASE w = "Nov" -> 11
      [] w = "Dec" -> 12
      [] OTHER     -> 0

\* %I%p: the 12-hour clock number and the am/pm mark a word spells
ClockOf(w) ==
    CASE w = "9am"  -> [I |-> 9,  p |-> "am"]
      [] w = "11am" -> [I |-> 11, p |-> "am"]
      [] w = "12pm" -> [I |-> 12, p |-> "pm"]
      [] w = "2pm"  -> [I |-> 2,  p |-> "pm"]
      [] OTHER      -> [I |-> 0,  p |-> ""]

DaysInMonth == <<31, 28, 31, 30, 31, 30, 31, 31, 30, 31, 30, 31>>

\* datetime.max, to the hour
DatetimeMax == <<9999, 12, 31, 23>>

\* datetime.strptime(f"{d} {b} 2025 {t}", "%d %b %Y %I%p"); DatetimeMax stands
\* for the ValueError that the caller turns into datetime.max
Strptime(d, b, t) ==
    LET day   == DayOf(d)
        month == MonthOf(b)
        clock == ClockOf(t)
    IN  IF day = 0 \/ month = 0 \/ clock.I = 0 THEN DatetimeMax
        ELSE IF day > DaysInMonth[month] THEN DatetimeMax
        ELSE <<YEAR, month, day,
               (clock.I % 12) + (IF clock.p = "pm" THEN 12 ELSE 0)>>

parse_slot_to_datetime(slot_str) ==
    LET text       == Spell(slot_str)
        cut        == StrSplit(text, SP)
        \* slot_str.split(' ', 1)[-1]
        no_day     == IF Len(cut) = 1 THEN text
                      ELSE StrJoin(Tail(cut), SP)
        no_ordinal == [i \in DOMAIN no_day |-> StripOrdinal(no_day[i])]
        parts      == StrSplit(no_ordinal, SP)
    IN  IF Len(parts) # 3 THEN DatetimeMax
        ELSE IF \E i \in 1..3 : Len(parts[i]) # 1 THEN DatetimeMax
        ELSE Strptime(parts[1][1], parts[2][1], parts[3][1])

\* datetime < datetime
RECURSIVE TupleLess(_, _)
TupleLess(a, b) ==
    IF a = <<>> \/ b = <<>> THEN FALSE
    ELSE IF Head(a) # Head(b) THEN Head(a) < Head(b)
    ELSE TupleLess(Tail(a), Tail(b))

\* SortedSlots with a seeded fault: equal keys come out in reverse order of encounter
RECURSIVE SortedSlotsTiesReversed(_)
SortedSlotsTiesReversed(slots) ==
    IF slots = <<>> THEN <<>>
    ELSE LET r == SortedSlotsTiesReversed(SubSeq(slots, 1, Len(slots) - 1))
             x == slots[Len(slots)]
             n == Cardinality({i \in DOMAIN r :
                      TupleLess(parse_slot_to_datetime(r[i]),
                                parse_slot_to_datetime(x))})
         IN  SubSeq(r, 1, n) \o <<x>> \o SubSeq(r, n + 1, Len(r))

\* sorted(all_slots, key=parse_slot_to_datetime): stable, ascending
RECURSIVE SortedSlots(_)
SortedSlots(slots) ==
    IF slots = <<>> THEN <<>>
    ELSE LET r == SortedSlots(SubSeq(slots, 1, Len(slots) - 1))
             x == slots[Len(slots)]
             \* x goes after every element whose key is not greater than its own
             n == Cardinality({i \in DOMAIN r :
                      ~ TupleLess(parse_slot_to_datetime(x),
                                  parse_slot_to_datetime(r[i]))})
         IN  SubSeq(r, 1, n) \o <<x>> \o SubSeq(r, n + 1, Len(r))

(***************************************************************************)
(* solve_choir_assignment: cleaning (the Availability Normalizer)          *)
(***************************************************************************)
\* one row of core_df exploded on its split availability, labels stripped
ExplodeRow(row) ==
    LET labels == StrSplit(row.avail, COMMA)
    IN  [i \in DOMAIN labels |->
            [name |-> row.name, part |-> row.part, Slot |-> StrStrip(labels[i])]]

NotNaAvail(row) == row.avail # NaN
NonEmptySlot(row) == row.Slot # EmptyStr

\* lines 42-49: strip name and part, dropna, split, explode, strip, drop ''
Normalize(records) ==
    LET core_df  == [i \in DOMAIN records |->
                        [name  |-> StrStrip(records[i].name),
                         part  |-> StrStrip(records[i].part),
                         avail |-> records[i].avail]]
        dropped  == SelectSeq(core_df, NotNaAvail)
        exploded == Flatten([i \in DOMAIN dropped |-> ExplodeRow(dropped[i])])
    IN  SelectSeq(exploded, NonEmptySlot)

\* a column read_csv found no value in is float64, and .str refuses it
AvailIsFloatColumn(records) ==
    records # <<>> /\ \A i \in DOMAIN records : records[i].avail = NaN

Column(df, col) == [i \in DOMAIN df |-> df[i][col]]

(***************************************************************************)
(* solve_choir_assignment: the assignment loop                             *)
(***************************************************************************)
NumCells == Len(all_slots_sorted) * Len(CHOIR_PARTS)

\* the slot and the part of the k-th iteration of the nested loops
SlotOfIter(k) == all_slots_sorted[((k - 1) \div Len(CHOIR_PARTS)) + 1]
PartOfIter(k) == CHOIR_PARTS[((k - 1) % Len(CHOIR_PARTS)) + 1]

\* Candidates with a seeded fault: the part is not compared
CandidatesAnyPart(df, slot, part) ==
    LET Match(row) == row.Slot = slot
    IN  Column(SelectSeq(df, Match), "name")

\* lines 97-101: the names of the rows of avail_df for this slot and part
Candidates(df, slot, part) ==
    LET Match(row) == row.Slot = slot /\ row.part = <<part>>
    IN  Column(SelectSeq(df, Match), "name")

\* s without its i-th element
Remove(s, i) == SubSeq(s, 1, i - 1) \o SubSeq(s, i + 1, Len(s))

\* SortValues with a seeded fault: ascending=False
RECURSIVE SortValuesDescending(_, _)
SortValuesDescending(names, counts) ==
    IF names = <<>> THEN {<<>>}
    ELSE UNION {{<<names[i]>> \o rest : rest \in SortValuesDescending(Remove(names, i), counts)} :
            i \in {k \in DOMAIN names :
                     \A j \in DOMAIN names : counts[names[k]] >= counts[names[j]]}}

\* lines 114-115: Series.sort_values(ascending=True) with the default kind
\* ('quicksort'), which does not fix the order of equal values: every
\* ascending order of the candidate rows is a possible result (any row with
\* the least count first, then the same of the rest)
RECURSIVE SortValues(_, _)
SortValues(names, counts) ==
    IF names = <<>> THEN {<<>>}
    ELSE UNION {{<<names[i]>> \o rest : rest \in SortValues(Remove(names, i), counts)} :
            i \in {k \in DOMAIN names :
                     \A j \in DOMAIN names : counts[names[k]] <= counts[names[j]]}}

\* Head3 with a seeded fault: head(2)
Head2(s) == SubSeq(s, 1, IF Len(s) < 2 THEN Len(s) ELSE 2)

\* head(3)
Head3(s) == SubSeq(s, 1, IF Len(s) < MaxPerCell THEN Len(s) ELSE MaxPerCell)

\* lines 108-118: the possible values of assigned_names
AssignedNames(names, counts) ==
    IF Len(names) <= MaxPerCell
    THEN {names}
    ELSE {Head3(p) : p \in SortValues(names, counts)}

\* Increment with a seeded fault: one increment per listed name, as a loop over
\* assigned_names would do
IncrementPerEntry(counts, assigned) ==
    [n \in DOMAIN counts |->
        counts[n] + Cardinality({i \in DOMAIN assigned : assigned[i] = n})]

\* line 121: assignment_counts.loc[assigned_names] += 1
Increment(counts, assigned) ==
    [n \in DOMAIN counts |->
        IF n \in SeqToSet(assigned) THEN counts[n] + 1 ELSE counts[n]]

\* FillNa with a seeded fault: the missing values are left as they are
FillNaSkipped(cell, value) == cell

\* lines 124-125: fillna("") and to_csv; the file holds the rows in index order
FillNa(cell, value) == IF cell = NaN THEN value ELSE cell

ToCsv(df, slots) ==
    [exists |-> TRUE,
     rows   |-> [i \in DOMAIN slots |->
                    [Slot  |-> slots[i],
                     cells |-> [c \in DOMAIN CHOIR_PARTS |-> df[slots[i]][CHOIR_PARTS[c]]]]]]

NoFile == [exists |-> FALSE, rows |-> <<>>]

(***************************************************************************)
(* generate_and_save_summary_stats                                         *)
(***************************************************************************)
\* the cell texts that pd.read_csv reads as missing (its default na_values)
NaTokens == {"NA", "N/A", "NaN", "nan", "null", "None", "NULL", "n/a", "<NA>",
             "#N/A", "#NA", "-NaN", "-nan", "1.#IND", "1.#QNAN", "-1.#IND",
             "-1.#QNAN", "#N/A N/A"}

ReadCsvCell(text) ==
    IF text = EmptyStr \/ (Len(text) = 1 /\ text[1] \in NaTokens) THEN NaN ELSE text

\* line 150: the cells of the table as read back, row by row
ReadAssignment(file) ==
    [i \in DOMAIN file.rows |->
        [c \in DOMAIN file.rows[i].cells |-> ReadCsvCell(file.rows[i].cells[c])]]

\* every column of the table read back is float64 (no text in any cell):
\* the stacked series is no string series and .str refuses it
NoTextColumn(file) ==
    LET t == ReadAssignment(file)
    IN  t # <<>> /\ \A i \in DOMAIN t : \A c \in DOMAIN t[i] : t[i][c] = NaN

NotNa(x) == x # NaN
NotEmptyStr(x) == x # EmptyStr

\* lines 171-174: stack, drop "", split on the newline, explode
ExplodedNames(file) ==
    LET stacked_series   == SelectSeq(Flatten(ReadAssignment(file)), NotNa)
        non_empty_series == SelectSeq(stacked_series, NotEmptyStr)
    IN  Flatten([i \in DOMAIN non_empty_series |-> StrSplit(non_empty_series[i], NL)])

CountOf(x, s) == Cardinality({i \in DOMAIN s : s[i] = x})

\* line 175: value_counts(), as name -> count
NameCounts(file) ==
    LET exploded_names == ExplodedNames(file)
    IN  [n \in SeqToSet(exploded_names) |-> CountOf(n, exploded_names)]

\* lines 191-194
TotalWantedSlots(avail) ==
    LET x == FillNa(avail, EmptyStr)
    IN  IF x = EmptyStr THEN 0 ELSE Len(StrSplit(x, COMMA))

\* lines 186-195: the lookup built from the raw records, first occurrence of a
\* (stripped) name kept
MappingDf(records) ==
    LET mapping_df == [i \in DOMAIN records |->
                          [name |-> StrStrip(records[i].name),
                           part |-> StrStrip(records[i].part),
                           TotalWantedSlots |-> TotalWantedSlots(records[i].avail)]]
        First(i)   == \A j \in 1..(i - 1) : mapping_df[j].name # mapping_df[i].name
        keep       == {i \in DOMAIN mapping_df : First(i)}
    IN  [n \in {mapping_df[i].name : i \in keep} |->
            mapping_df[CHOOSE i \in keep : mapping_df[i].name = n]]

\* the order of Python strings, on the tokens the model uses
Collation == <<"A", "Alto", "B", "Baritone", "Bass", "C", "D", "E", "F",
               "NA", "Soprano", "Tenor", "Unknown", "Z">>
TokenRank(t) ==
    IF \E i \in DOMAIN Collation : Collation[i] = t
    THEN CHOOSE i \in DOMAIN Collation : Collation[i] = t
    ELSE 0

RECURSIVE StrLess(_, _)
StrLess(a, b) ==
    IF b = <<>> THEN FALSE
    ELSE IF a = <<>> THEN TRUE
    ELSE IF Head(a) # Head(b) THEN TokenRank(Head(a)) < TokenRank(Head(b))
    ELSE StrLess(Tail(a), Tail(b))

\* lines 207-210: by part ascending, TotalAssignedSlots descending, Name ascending
RowBefore(r, q) ==
    IF r.part # q.part THEN StrLess(r.part, q.part)
    ELSE IF r.TotalAssignedSlots # q.TotalAssignedSlots
         THEN r.TotalAssignedSlots > q.TotalAssignedSlots
    ELSE StrLess(r.Name, q.Name)

\* lines 198-206: the left merge of the counts with the lookup; a name without
\* a raw record has no TotalWantedSlots (<<>>) and the part 'Unknown'
MergedRow(n, counts, mapping) ==
    [part |-> IF n \in DOMAIN mapping
              THEN FillNa(mapping[n].part, <<"Unknown">>)
              ELSE <<"Unknown">>,
     Name |-> n,
     TotalAssignedSlots |-> counts[n],
     TotalWantedSlots   |-> IF n \in DOMAIN mapping
                            THEN <<mapping[n].TotalWantedSlots>>
                            ELSE <<>>]

\* lines 170-211: the rows of the statistics file
FinalDf(file, records) ==
    LET counts  == NameCounts(file)
        mapping == MappingDf(records)
        rows    == {MergedRow(n, counts, mapping) : n \in DOMAIN counts}
    IN  CHOOSE s \in [1..Cardinality(rows) -> rows] :
            /\ \A r \in rows : \E i \in DOMAIN s : s[i] = r
            /\ \A i, j \in DOMAIN s : i < j => RowBefore(s[i], s[j])

(***************************************************************************)
(* Inputs: the contents of data/responses.csv                              *)
(***************************************************************************)
MaxRecords == 4
MaxMessy == 2
MaxSlots == 4

Record(name, part, avail) == [name |-> name, part |-> part, avail |-> avail]

\* the availability text of a form response: the labels joined by ", "
Field(labels) ==
    StrJoin([i \in DOMAIN labels |->
                IF i = 1 THEN <<labels[i]>> ELSE <<SP, labels[i]>>], COMMA)

SeqsUpTo(S, n) == UNION {[1..k -> S] : k \in 0..n}

\* Rota inputs: up to MaxRecords sopranos, named in order of appearance, each
\* available from one of the RotaSlots onwards.
NamePool == <<"A", "B", "C", "D", "E", "F">>
RotaSlots == <<"Sat 15th Nov 9am", "Sun 16th Nov 2pm", "Mon 17th Nov 9am">>
RotaFields == {Field(SubSeq(RotaSlots, i, Len(RotaSlots))) : i \in DOMAIN RotaSlots}

RotaInputs ==
    {[i \in DOMAIN a |-> Record(<<NamePool[i]>>, <<"Soprano">>, a[i])] :
        a \in UNION {[1..k -> RotaFields] : k \in 1..MaxRecords}}

\* Untidy inputs: padded names and parts, a part outside the choir, missing
\* availability, a trailing comma, a slot listed twice, a bad label.
MessyNames == {<<"A">>, <<SP, "B">>}
MessyParts == {<<"Soprano">>, <<"Alto", SP>>, <<"Baritone">>}
MessyFields ==
    {NaN,
     Field(<<"Mon 17th Nov 9am">>) \o <<COMMA>>,
     Field(<<"Mon 17th Nov 9am", "Mon 17th Nov 9am">>),
     Field(<<"Garbage Label", "Mon 17th Nov 9am">>)}

MessyInputs ==
    SeqsUpTo({Record(n, p, a) : n \in MessyNames, p \in MessyParts, a \in MessyFields},
             MaxMessy)

\* Calendar inputs: one response listing up to MaxSlots different labels
SlotPool == {"Mon 17th Nov 9am", "Weds 19th Nov 11am", "Tues 18th Nov 2pm",
             "Garbage Label", "Tues 18th Nov 12pm", "Mon 31st Nov 9am",
             "18th Nov 2pm"}

CalendarInputs ==
    {<<Record(<<"A">>, <<"Alto">>, Field(l))>> :
        l \in {m \in SeqsUpTo(SlotPool, MaxSlots) :
                  m # <<>> /\ \A i, j \in DOMAIN m : m[i] = m[j] => i = j}}

Init ==
    /\ \/ /\ rawCols = RequiredCols
          /\ rawRecords \in RotaInputs \cup MessyInputs \cup CalendarInputs
       \/ /\ rawCols \in {RequiredCols \ {c} : c \in RequiredCols}
          /\ rawRecords = <<>>
    /\ pc = "solve"
    /\ sched_result = "pending"
    /\ avail_df = <<>>
    /\ assignment_counts = <<>>
    /\ all_slots_sorted = <<>>
    /\ cursor = 0
    /\ final_assignment_df = <<>>
    /\ assignment_file = NoFile
    /\ stats_result = "pending"
    /\ stats_file = NoFile

(***************************************************************************)
(* solve_choir_assignment                                                  *)
(***************************************************************************)
schedVars == <<avail_df, assignment_counts, all_slots_sorted, cursor,
               final_assignment_df>>
inputVars == <<rawCols, rawRecords>>
statsVars == <<stats_result, stats_file>>

\* SolveReturnNone with a seeded fault: __main__ calls the statistics whatever
\* the scheduler returned
SolveReturnNoneThenStats ==
    /\ pc = "solve"
    /\ \E why \in {"FileNotFoundError", "Exception", "KeyError"} :
          why = "KeyError" => ~ (RequiredCols \subseteq rawCols)
    /\ sched_result' = "None"
    /\ pc' = "stats"
    /\ UNCHANGED <<inputVars, schedVars, assignment_file, statsVars>>

\* SolveReturnNone with a seeded fault: the table file is written before the
\* function returns
SolveReturnNoneAfterWriting ==
    /\ pc = "solve"
    /\ \E why \in {"FileNotFoundError", "Exception", "KeyError"} :
          why = "KeyError" => ~ (RequiredCols \subseteq rawCols)
    /\ sched_result' = "None"
    /\ assignment_file' = [exists |-> TRUE, rows |-> <<>>]
    /\ pc' = "end"
    /\ UNCHANGED <<inputVars, schedVars, statsVars>>

\* lines 20-39: the file is missing or unreadable, or a required column is
\* absent: the function prints and returns None; __main__ then skips the
\* statistics (line 225)
SolveReturnNone ==
    /\ pc = "solve"
    /\ \E why \in {"FileNotFoundError", "Exception", "KeyError"} :
          why = "KeyError" => ~ (RequiredCols \subseteq rawCols)
    /\ sched_result' = "None"
    /\ pc' = "end"
    /\ UNCHANGED <<inputVars, schedVars, assignment_file, statsVars>>

\* line 45: .str on an availability column with no value in it raises
\* AttributeError, which nothing catches
SolveRaise ==
    /\ pc = "solve"
    /\ RequiredCols \subseteq rawCols
    /\ AvailIsFloatColumn(rawRecords)
    /\ sched_result' = "raised"
    /\ pc' = "end"
    /\ UNCHANGED <<inputVars, schedVars, assignment_file, statsVars>>

\* lines 41-88: clean, initialise the counters, sort the slots, build the frame
SolvePrepare ==
    /\ pc = "solve"
    /\ RequiredCols \subseteq rawCols
    /\ ~ AvailIsFloatColumn(rawRecords)
    /\ LET df         == Normalize(rawRecords)
           all_people == SeqToSet(Column(df, "name"))
           all_slots  == Unique(Column(df, "Slot"))
       IN  /\ avail_df' = df
           /\ assignment_counts' = [n \in all_people |-> 0]
           /\ all_slots_sorted' = SortedSlots(all_slots)
           /\ final_assignment_df' =
                 [sl \in SeqToSet(all_slots) |->
                     [p \in SeqToSet(CHOIR_PARTS) |-> NaN]]
    /\ cursor' = 0
    /\ pc' = "loop"
    /\ UNCHANGED <<inputVars, sched_result, assignment_file, statsVars>>

\* DecideCell with a seeded fault: the names are written to the row of the
\* first slot whatever the slot of the iteration
DecideCellFirstRow ==
    /\ pc = "loop"
    /\ cursor < NumCells
    /\ LET slot  == SlotOfIter(cursor + 1)
           part  == PartOfIter(cursor + 1)
           candidates_names == Candidates(avail_df, slot, part)
       IN  IF Len(candidates_names) = 0
           THEN UNCHANGED <<final_assignment_df, assignment_counts>>
           ELSE \E assigned_names \in AssignedNames(candidates_names, assignment_counts) :
                   /\ final_assignment_df' =
                         [final_assignment_df EXCEPT
                             ![all_slots_sorted[1]][part] = StrJoin(assigned_names, NL)]
                   /\ assignment_counts' = Increment(assignment_counts, assigned_names)
    /\ cursor' = cursor + 1
    /\ UNCHANGED <<inputVars, pc, sched_result, avail_df, all_slots_sorted,
                   assignment_file, statsVars>>

\* lines 93-121: one iteration of the nested loops
DecideCell ==
    /\ pc = "loop"
    /\ cursor < NumCells
    /\ LET slot  == SlotOfIter(cursor + 1)
           part  == PartOfIter(cursor + 1)
           candidates_names == Candidates(avail_df, slot, part)
       IN  IF Len(candidates_names) = 0
           THEN UNCHANGED <<final_assignment_df, assignment_counts>>
           ELSE \E assigned_names \in AssignedNames(candidates_names, assignment_counts) :
                   /\ final_assignment_df' =
                         [final_assignment_df EXCEPT
                             ![slot][part] = StrJoin(assigned_names, NL)]
                   /\ assignment_counts' = Increment(assignment_counts, assigned_names)
    /\ cursor' = cursor + 1
    /\ UNCHANGED <<inputVars, pc, sched_result, avail_df, all_slots_sorted,
                   assignment_file, statsVars>>

\* lines 124-133: fill the empty cells, write the file, return the frame;
\* __main__ goes on to the statistics
SolveSave ==
    /\ pc = "loop"
    /\ cursor = NumCells
    /\ final_assignment_df' =
          [sl \in DOMAIN final_assignment_df |->
              [p \in DOMAIN final_assignment_df[sl] |->
                  FillNa(final_assignment_df[sl][p], EmptyStr)]]
    /\ assignment_file' = ToCsv(final_assignment_df', all_slots_sorted)
    /\ sched_result' = "df"
    /\ pc' = "stats"
    /\ UNCHANGED <<inputVars, avail_df, assignment_counts, all_slots_sorted, cursor,
                   statsVars>>

(***************************************************************************)
(* generate_and_save_summary_stats                                         *)
(***************************************************************************)
\* lines 149-166 and 181-184: an input file is missing or unreadable, or the
\* raw records lack a column: the function prints and returns, writing nothing
StatsReturnNone ==
    /\ pc = "stats"
    /\ \E why \in {"assignment FileNotFoundError", "assignment Exception",
                   "raw FileNotFoundError", "raw Exception", "columns"} :
          /\ why = "assignment FileNotFoundError" => ~ assignment_file.exists
          /\ why # "assignment FileNotFoundError" => assignment_file.exists
          /\ why = "columns" =>
                ~ NoTextColumn(assignment_file) /\ ~ (RequiredCols \subseteq rawCols)
    /\ stats_result' = "None"
    /\ pc' = "end"
    /\ UNCHANGED <<inputVars, sched_result, schedVars, assignment_file, stats_file>>

\* line 173: .str on a table without any text raises AttributeError
StatsRaise ==
    /\ pc = "stats"
    /\ assignment_file.exists
    /\ NoTextColumn(assignment_file)
    /\ stats_result' = "raised"
    /\ pc' = "end"
    /\ UNCHANGED <<inputVars, sched_result, schedVars, assignment_file, stats_file>>

\* lines 168-217: count, join, sort and write the statistics
StatsSave ==
    /\ pc = "stats"
    /\ assignment_file.exists
    /\ ~ NoTextColumn(assignment_file)
    /\ RequiredCols \subseteq rawCols
    /\ stats_file' = [exists |-> TRUE, rows |-> FinalDf(assignment_file, rawRecords)]
    /\ stats_result' = "ok"
    /\ pc' = "end"
    /\ UNCHANGED <<inputVars, sched_result, schedVars, assignment_file>>

\* __main__, lines 220-226
Next ==
    \/ SolveReturnNone
    \/ SolveRaise
    \/ SolvePrepare
    \/ DecideCell
    \/ SolveSave
    \/ StatsReturnNone
    \/ StatsRaise
    \/ StatsSave

Spec == Init /\ [][Next]_vars

(***************************************************************************)
(* generate_and_save_summary_stats run on its own, on whatever               *)
(* choir_assignment.csv and data/responses.csv are on disk                   *)
(***************************************************************************)
MaxTableRows == 2
MaxStatsRecords == 2

\* cell texts of a table on disk: empty, two names (Z has no raw record), one
\* name, and a name that spells one of read_csv's missing-value tokens
TableCells == {EmptyStr, <<"A", NL, "Z">>, <<"B">>, <<"NA">>}

\* tables whose rows fill the Soprano and Alto cells
TableRow(i, soprano, alto) ==
    [Slot |-> <<RotaSlots[i]>>, cells |-> <<soprano, alto, EmptyStr, EmptyStr>>]

TablesOnDisk ==
    {[exists |-> TRUE, rows |-> [i \in DOMAIN cs |-> TableRow(i, cs[i][1], cs[i][2])]] :
        cs \in SeqsUpTo(TableCells \X TableCells, MaxTableRows)}

StatsRecords ==
    SeqsUpTo({Record(<<"A">>, <<"Soprano">>, Field(<<"Mon 17th Nov 9am">>)),
              Record(<<SP, "A">>, <<"Alto", SP>>,
                     Field(<<"Sat 15th Nov 9am", "Sun 16th Nov 2pm">>)),
              Record(<<"B">>, <<"Tenor">>, NaN)},
             MaxStatsRecords)

InitStats ==
    /\ \/ /\ rawCols = RequiredCols
          /\ rawRecords \in StatsRecords
       \/ /\ rawCols \in {RequiredCols \ {c} : c \in RequiredCols}
          /\ rawRecords = <<>>
    /\ assignment_file \in {NoFile} \cup TablesOnDisk
    /\ pc = "stats"
    /\ sched_result = "pending"
    /\ avail_df = <<>>
    /\ assignment_counts = <<>>
    /\ all_slots_sorted = <<>>
    /\ cursor = 0
    /\ final_assignment_df = <<>>
    /\ stats_result = "pending"
    /\ stats_file = NoFile

NextStats ==
    \/ StatsReturnNone
    \/ StatsRaise
    \/ StatsSave

SpecStats == InitStats /\ [][NextStats]_vars

(***************************************************************************)
(* Properties                                                              *)
(***************************************************************************)
\* the list of names a cell text holds
CellNames(cell) ==
    IF cell = NaN \/ cell = EmptyStr THEN <<>> ELSE StrSplit(cell, NL)

Prepared == pc # "solve" /\ sched_result # "None" /\ sched_result # "raised"

\* the cell of the k-th iteration, in a frame
CellOfIter(df, k) == df[SlotOfIter(k)][PartOfIter(k)]
CandidatesOfIter(k) == Candidates(avail_df, SlotOfIter(k), PartOfIter(k))

\* a step that is one cell decision
IsDecision == pc = "loop" /\ cursor' = cursor + 1

HasTriple(name, slot, part) ==
    \E i \in DOMAIN avail_df :
        /\ avail_df[i].name = name
        /\ avail_df[i].Slot = slot
        /\ avail_df[i].part = <<part>>

\* C1: in every state of a run, every name listed in a cell of the assignment
\* table (and of the file written from it) is the name of a person with an
\* availability triple for that cell's slot and part.
C1_CellNamesAreCandidates ==
    /\ \A sl \in DOMAIN final_assignment_df :
          \A p \in DOMAIN final_assignment_df[sl] :
              \A n \in SeqToSet(CellNames(final_assignment_df[sl][p])) :
                  HasTriple(n, sl, p)
    /\ \A i \in DOMAIN assignment_file.rows :
          \A c \in DOMAIN CHOIR_PARTS :
              \A n \in SeqToSet(CellNames(assignment_file.rows[i].cells[c])) :
                  HasTriple(n, assignment_file.rows[i].Slot, CHOIR_PARTS[c])

\* a cell has just been given two or more names while cells remain to be decided
C1_Witness ==
    /\ pc = "loop"
    /\ cursor >= 1
    /\ cursor < NumCells
    /\ Len(CellNames(CellOfIter(final_assignment_df, cursor))) >= 2

Min(a, b) == IF a < b THEN a ELSE b

\* C2: every decided cell holds min(|candidates|, 3) names, candidates being the
\* people with a triple for the cell, and all of them when there are at most 3.
C2_CellSize ==
    Prepared =>
        \A k \in 1..cursor :
            LET people == SeqToSet(CandidatesOfIter(k))
                names  == CellNames(CellOfIter(final_assignment_df, k))
            IN  /\ Len(names) = Min(Cardinality(people), MaxPerCell)
                /\ Cardinality(people) <= MaxPerCell => people \subseteq SeqToSet(names)

\* C3: at a decision of a cell with more than 3 candidate rows, nobody assigned
\* had, just before the decision, a strictly higher counter than a candidate
\* left unassigned.
C3_FairnessBound ==
    [][IsDecision =>
        LET cand     == CandidatesOfIter(cursor + 1)
            assigned == SeqToSet(CellNames(CellOfIter(final_assignment_df', cursor + 1)))
        IN  Len(cand) > MaxPerCell =>
                \A a \in assigned : \A u \in SeqToSet(cand) \ assigned :
                    assignment_counts[a] <= assignment_counts[u]
      ]_vars

\* the cell just decided had more than 3 candidates, and the counters decided:
\* somebody assigned stood strictly lower than somebody left out
C3_Witness ==
    /\ pc = "loop"
    /\ cursor >= 1
    /\ LET cand     == CandidatesOfIter(cursor)
           assigned == SeqToSet(CellNames(CellOfIter(final_assignment_df, cursor)))
       IN  /\ Len(cand) > MaxPerCell
           /\ \E a \in assigned : \E u \in SeqToSet(cand) \ assigned :
                 assignment_counts[a] - 1 < assignment_counts[u]

\* the candidates by counter ascending, equal counters in candidate order
RECURSIVE StableRanking(_, _)
StableRanking(names, counts) ==
    IF names = <<>> THEN <<>>
    ELSE LET r == StableRanking(SubSeq(names, 1, Len(names) - 1), counts)
             x == names[Len(names)]
             n == Cardinality({i \in DOMAIN r : counts[r[i]] <= counts[x]})
         IN  SubSeq(r, 1, n) \o <<x>> \o SubSeq(r, n + 1, Len(r))

\* C4: at a decision of a cell with more than 3 candidates the cell is given
\* the first 3 of the candidates ranked by counter ascending, ties in the
\* Normalizer's order, in ranking order.
C4_StableRanking ==
    [][IsDecision =>
        LET cand == CandidatesOfIter(cursor + 1)
        IN  Len(cand) > MaxPerCell =>
                CellNames(CellOfIter(final_assignment_df', cursor + 1))
                    = SubSeq(StableRanking(cand, assignment_counts), 1, MaxPerCell)
      ]_vars

\* C5: the counters start at 0 for exactly the people of the availability
\* relation; a cell decision adds exactly 1 to the counter of each person it
\* assigns and leaves the others (all of them, when the cell has no candidate);
\* no step ever lowers or resets a counter.
C5_Counters ==
    [][/\ (pc = "solve" /\ pc' = "loop") =>
            /\ DOMAIN assignment_counts' = SeqToSet(Column(avail_df', "name"))
            /\ \A n \in DOMAIN assignment_counts' : assignment_counts'[n] = 0
       /\ IsDecision =>
            LET assigned == SeqToSet(CellNames(CellOfIter(final_assignment_df', cursor + 1)))
            IN  /\ CandidatesOfIter(cursor + 1) = <<>> => assigned = {}
                /\ DOMAIN assignment_counts' = DOMAIN assignment_counts
                /\ \A n \in DOMAIN assignment_counts :
                      assignment_counts'[n] =
                          IF n \in assigned THEN assignment_counts[n] + 1
                          ELSE assignment_counts[n]
       /\ pc # "solve" =>
            /\ DOMAIN assignment_counts' = DOMAIN assignment_counts
            /\ \A n \in DOMAIN assignment_counts :
                  assignment_counts'[n] >= assignment_counts[n]
      ]_vars

\* a decision of a cell with more than 3 candidates has just raised a counter
\* to 2, a candidate it left out keeping a counter of 2
C5_Witness ==
    /\ pc = "loop"
    /\ cursor >= 1
    /\ LET cand     == CandidatesOfIter(cursor)
           assigned == SeqToSet(CellNames(CellOfIter(final_assignment_df, cursor)))
       IN  /\ Len(cand) > MaxPerCell
           /\ \E n \in assigned : assignment_counts[n] = 2
           /\ \E m \in SeqToSet(cand) \ assigned : assignment_counts[m] = 2

\* the distinct slots in the order the cleaned rows first name them
Encounter == Unique(Column(avail_df, "Slot"))

Parseable(slot) == parse_slot_to_datetime(slot) # DatetimeMax
Unparseable(slot) == ~ Parseable(slot)

\* C7: the slots are processed in ascending order of their parsed date-time
\* (year 2025), the slots that do not parse after all that do and in their
\* order of first encounter; the four labels of the example come out as
\* Nov 17 9am, Nov 18 2pm, Nov 19 11am, "Garbage Label".
C7_SlotOrder ==
    LET key == [i \in DOMAIN all_slots_sorted |->
                   parse_slot_to_datetime(all_slots_sorted[i])]
    IN  /\ Len(all_slots_sorted) = Len(Encounter)
        /\ SeqToSet(all_slots_sorted) = SeqToSet(Encounter)
        /\ \A i \in DOMAIN key : key[i] # DatetimeMax => key[i][1] = YEAR
        /\ \A i, j \in DOMAIN key :
              i < j =>
                /\ ~ TupleLess(key[j], key[i])
                /\ key[i] = DatetimeMax => key[j] = DatetimeMax
        /\ SelectSeq(all_slots_sorted, Unparseable) = SelectSeq(Encounter, Unparseable)
        /\ SeqToSet(all_slots_sorted)
                = {<<"Mon 17th Nov 9am">>, <<"Weds 19th Nov 11am">>,
                   <<"Tues 18th Nov 2pm">>, <<"Garbage Label">>} =>
              all_slots_sorted = << <<"Mon 17th Nov 9am">>, <<"Tues 18th Nov 2pm">>,
                                    <<"Weds 19th Nov 11am">>, <<"Garbage Label">> >>

\* two labels that do not parse were met before two that do, the later of the
\* two dates first
C7_Witness ==
    /\ pc = "loop"
    /\ Len(Encounter) = 4
    /\ ~ Parseable(Encounter[1])
    /\ ~ Parseable(Encounter[2])
    /\ Parseable(Encounter[3])
    /\ Parseable(Encounter[4])
    /\ TupleLess(parse_slot_to_datetime(Encounter[4]), parse_slot_to_datetime(Encounter[3]))

C8_A == <<"A">>
C8_B == <<"B">>
C8_C == <<"C">>
C8_D == <<"D">>

\* the Soprano cell of "Mon 17th Nov 9am" is the next to be decided, with the
\* candidates A, B, C, D and the counters A:0, B:1, C:0, D:2
C8_Scenario ==
    /\ pc = "loop"
    /\ cursor < NumCells
    /\ SlotOfIter(cursor + 1) = <<"Mon 17th Nov 9am">>
    /\ PartOfIter(cursor + 1) = "Soprano"
    /\ CandidatesOfIter(cursor + 1) = <<C8_A, C8_B, C8_C, C8_D>>
    /\ assignment_counts[C8_A] = 0
    /\ assignment_counts[C8_B] = 1
    /\ assignment_counts[C8_C] = 0
    /\ assignment_counts[C8_D] = 2

CellsContaining(name, file) ==
    Cardinality({ic \in (DOMAIN file.rows) \X (DOMAIN CHOIR_PARTS) :
        name \in SeqToSet(CellNames(file.rows[ic[1]].cells[ic[2]]))})

\* C9: every row of the statistics reports, as TotalAssignedSlots, the number
\* of cells of the persisted assignment table that list the row's person.
C9_AssignedIsCellCount ==
    stats_result = "ok" =>
        \A i \in DOMAIN stats_file.rows :
            stats_file.rows[i].TotalAssignedSlots
                = CellsContaining(stats_file.rows[i].Name, assignment_file)

HasRawRecord(name) ==
    \E i \in DOMAIN rawRecords : StrStrip(rawRecords[i].name) = name

\* the distinct slots a person marked available, over all their raw records
SlotsMarked(name) ==
    {avail_df[i].Slot : i \in {j \in DOMAIN avail_df : avail_df[j].name = name}}

\* C10: every row of the statistics whose person has a raw record reports, as
\* TotalWantedSlots, the number of distinct slots that person marked available
\* (0 when there is none).
C10_WantedIsSlotCount ==
    stats_result = "ok" =>
        \A i \in DOMAIN stats_file.rows :
            HasRawRecord(stats_file.rows[i].Name) =>
                stats_file.rows[i].TotalWantedSlots
                    = <<Cardinality(SlotsMarked(stats_file.rows[i].Name))>>

\* C11: a stage that ends in an error outcome (input missing or unreadable, a
\* required column absent) writes no output file: the step in which
\* solve_choir_assignment returns None leaves the table file alone, the step in
\* which generate_and_save_summary_stats gives up leaves the statistics file
\* alone, and neither file exists after its stage failed; raw records without
\* the availability column end the scheduler in that outcome.
C11_ErrorWritesNothing ==
    [][/\ sched_result' = "None" =>
            /\ assignment_file' = assignment_file
            /\ ~ assignment_file'.exists
       /\ stats_result' = "None" =>
            /\ stats_file' = stats_file
            /\ ~ stats_file'.exists
       /\ (pc = "solve" /\ AVAIL_COL \notin rawCols) =>
            /\ sched_result' = "None"
            /\ ~ assignment_file'.exists
      ]_vars

\* the scheduler has given up on raw records without the availability column
C11_Witness ==
    /\ pc = "end"
    /\ AVAIL_COL \notin rawCols
    /\ sched_result = "None"
    /\ ~ assignment_file.exists

\* the non-empty trimmed slot labels of a raw record (none when the value is
\* missing)
LabelsOf(rec) ==
    IF rec.avail = NaN THEN {}
    ELSE {StrStrip(l) : l \in SeqToSet(StrSplit(rec.avail, COMMA))} \ {EmptyStr}

\* the rows of the availability relation for a person and a slot
TriplesOf(name, slot) ==
    {i \in DOMAIN avail_df : avail_df[i].name = name /\ avail_df[i].Slot = slot}

\* C12: the Normalizer emits exactly one triple per (person, non-empty trimmed
\* slot label) pair of the raw records, each triple carrying the trimmed part
\* of a record it comes from; a record without an availability value and an
\* empty label contribute no triple.
C12_OneTriplePerPair ==
    Prepared =>
        /\ \A r \in DOMAIN rawRecords : \A slot \in LabelsOf(rawRecords[r]) :
              Cardinality(TriplesOf(StrStrip(rawRecords[r].name), slot)) = 1
        /\ \A i \in DOMAIN avail_df :
              /\ avail_df[i].Slot # EmptyStr
              /\ \E r \in DOMAIN rawRecords :
                    /\ avail_df[i].name = StrStrip(rawRecords[r].name)
                    /\ avail_df[i].part = StrStrip(rawRecords[r].part)
                    /\ avail_df[i].Slot \in LabelsOf(rawRecords[r])

\* the distinct slots of the availability relation
SlotsOfRelation == SeqToSet(Column(avail_df, "Slot"))

\* C13: the table the scheduler outputs (the frame it returns and the file it
\* writes) has exactly one row per distinct slot of the availability relation,
\* also for a slot whose four cells are all empty, and exactly the 4 part
\* columns; every cell without an assignment holds the empty string, not a
\* missing value.
C13_TableShape ==
    sched_result = "df" =>
        /\ DOMAIN final_assignment_df = SlotsOfRelation
        /\ \A sl \in DOMAIN final_assignment_df :
              /\ DOMAIN final_assignment_df[sl] = SeqToSet(CHOIR_PARTS)
              /\ \A p \in SeqToSet(CHOIR_PARTS) :
                    /\ final_assignment_df[sl][p] # NaN
                    /\ Candidates(avail_df, sl, p) = <<>> =>
                          final_assignment_df[sl][p] = EmptyStr
        /\ assignment_file.exists
        /\ Len(assignment_file.rows) = Cardinality(SlotsOfRelation)
        /\ {assignment_file.rows[i].Slot : i \in DOMAIN assignment_file.rows}
              = SlotsOfRelation
        /\ \A i \in DOMAIN assignment_file.rows :
              /\ DOMAIN assignment_file.rows[i].cells = DOMAIN CHOIR_PARTS
              /\ \A c \in DOMAIN CHOIR_PARTS :
                    /\ assignment_file.rows[i].cells[c] # NaN
                    /\ Candidates(avail_df, assignment_file.rows[i].Slot, CHOIR_PARTS[c]) = <<>> =>
                          assignment_file.rows[i].cells[c] = EmptyStr

\* the table was written with a row whose four cells are all empty, the people
\* of that slot having a part outside the choir, next to a row with a name
C13_Witness ==
    /\ sched_result = "df"
    /\ \E i, j \in DOMAIN assignment_file.rows :
          /\ \A c \in DOMAIN CHOIR_PARTS : assignment_file.rows[i].cells[c] = EmptyStr
          /\ \E k \in DOMAIN avail_df :
                /\ avail_df[k].Slot = assignment_file.rows[i].Slot
                /\ avail_df[k].part \notin {<<CHOIR_PARTS[c]>> : c \in DOMAIN CHOIR_PARTS}
          /\ \E c \in DOMAIN CHOIR_PARTS : assignment_file.rows[j].cells[c] # EmptyStr

\* the people named in the cells of the persisted table
NamedInTable(file) ==
    UNION {SeqToSet(CellNames(file.rows[i].cells[c])) :
              i \in DOMAIN file.rows, c \in DOMAIN CHOIR_PARTS}

\* the first raw record of a person
FirstRecord(name) ==
    rawRecords[CHOOSE i \in DOMAIN rawRecords :
        /\ StrStrip(rawRecords[i].name) = name
        /\ \A j \in 1..(i - 1) : StrStrip(rawRecords[j].name) # name]

\* C14: the statistics hold exactly one row for each person named at least
\* once in the assignment table and no row for anyone else; a person without
\* a raw record is kept with the part "Unknown"; a person with several raw
\* records gets the part and the TotalWantedSlots of the first.
C14_OneRowPerNamedPerson ==
    stats_result = "ok" =>
        /\ \A n \in NamedInTable(assignment_file) :
              Cardinality({i \in DOMAIN stats_file.rows : stats_file.rows[i].Name = n}) = 1
        /\ \A i \in DOMAIN stats_file.rows :
              LET row == stats_file.rows[i]
              IN  /\ row.Name \in NamedInTable(assignment_file)
                  /\ ~ HasRawRecord(row.Name) => row.part = <<"Unknown">>
                  /\ HasRawRecord(row.Name) =>
                        /\ row.part = StrStrip(FirstRecord(row.Name).part)
                        /\ row.TotalWantedSlots
                              = <<TotalWantedSlots(FirstRecord(row.Name).avail)>>

\* the cells of the frame, and those that hold a value
Cells == {<<sl, CHOIR_PARTS[c]>> : sl \in DOMAIN final_assignment_df, c \in DOMAIN CHOIR_PARTS}
Written(df) == {c \in Cells : df[c[1]][c[2]] # NaN}

SlotIndex(sl) == CHOOSE i \in DOMAIN all_slots_sorted : all_slots_sorted[i] = sl
PartIndex(p) == CHOOSE c \in DOMAIN CHOIR_PARTS : CHOIR_PARTS[c] = p

\* cell a comes before cell b in slot-then-part order
CellBefore(a, b) ==
    \/ SlotIndex(a[1]) < SlotIndex(b[1])
    \/ SlotIndex(a[1]) = SlotIndex(b[1]) /\ PartIndex(a[2]) < PartIndex(b[2])

\* C15: the cells are decided strictly in slot-then-part order (the sorted
\* slots, and Soprano, Alto, Tenor, Bass within a slot): a step of the loop
\* decides the next cell in that order and writes no other, the cell it writes
\* had no value yet and comes after every cell already written; a cell that
\* has been written keeps its contents for the rest of the run.
C15_SequentialNoBacktracking ==
    [][/\ (pc = "loop" /\ pc' = "loop") =>
            LET new == {c \in Cells :
                           final_assignment_df'[c[1]][c[2]] # final_assignment_df[c[1]][c[2]]}
            IN  /\ cursor' = cursor + 1
                /\ new \subseteq {<<SlotOfIter(cursor + 1), PartOfIter(cursor + 1)>>}
                /\ Candidates(avail_df, SlotOfIter(cursor + 1), PartOfIter(cursor + 1)) # <<>>
                      => new # {}
                /\ \A c \in new :
                      /\ final_assignment_df[c[1]][c[2]] = NaN
                      /\ \A w \in Written(final_assignment_df) : CellBefore(w, c)
       /\ pc # "solve" =>
            /\ DOMAIN final_assignment_df' = DOMAIN final_assignment_df
            /\ \A c \in Written(final_assignment_df) :
                  final_assignment_df'[c[1]][c[2]] = final_assignment_df[c[1]][c[2]]
      ]_vars

\* cells of two different slots have been written, a cell without candidates
\* was passed over, and cells remain to be decided
C15_Witness ==
    /\ pc = "loop"
    /\ cursor < NumCells
    /\ \E a, b \in Written(final_assignment_df) : a[1] # b[1]
    /\ \E k \in 1..cursor : CellOfIter(final_assignment_df, k) = NaN

\* the iterations already made whose cell lists a person
DecidedCellsWith(name) ==
    {k \in 1..cursor : name \in SeqToSet(CellNames(CellOfIter(final_assignment_df, k)))}

\* C16: after every cell decision and at the end of the run, each person's
\* counter equals the number of already decided cells whose name list contains
\* that person.
C16_CounterIsCellCount ==
    Prepared =>
        \A n \in DOMAIN assignment_counts :
            assignment_counts[n] = Cardinality(DecidedCellsWith(n))

\* the run is over, a cell had more than 3 candidates, and the counters differ:
\* one person is in 3 cells and another in 1
C16_Witness ==
    /\ sched_result = "df"
    /\ \E k \in 1..cursor : Len(CandidatesOfIter(k)) > MaxPerCell
    /\ \E n, m \in DOMAIN assignment_counts :
          /\ assignment_counts[n] = 3
          /\ assignment_counts[m] = 1

\* C17: in the main sequence the statistics start only after the scheduler
\* has returned its table and written the table file; when the scheduler ends
\* in an error outcome the statistics are never run and no statistics file is
\* written.
C17_StatsAfterScheduler ==
    /\ (pc = "stats" \/ stats_result # "pending") =>
          /\ sched_result = "df"
          /\ assignment_file.exists
    /\ sched_result \in {"None", "raised"} =>
          /\ pc = "end"
          /\ stats_result = "pending"
          /\ ~ stats_file.exists

\* the statistics have run to the end after the scheduler wrote its table
C17_Witness ==
    /\ pc = "end"
    /\ sched_result = "df"
    /\ assignment_file.exists
    /\ stats_result = "ok"
    /\ stats_file.exists

\* C18: when the statistics are computed from the table the scheduler made of
\* the same raw records, every row has TotalAssignedSlots <= TotalWantedSlots.
C18_AssignedAtMostWanted ==
    (sched_result = "df" /\ stats_result = "ok") =>
        \A i \in DOMAIN stats_file.rows :
            /\ stats_file.rows[i].TotalWantedSlots # <<>>
            /\ stats_file.rows[i].TotalAssignedSlots
                  <= stats_file.rows[i].TotalWantedSlots[1]

\* C19: in every state of the scheduler no cell lists the same name more than
\* once.
C19_NoRepeatedName ==
    \A sl \in DOMAIN final_assignment_df :
        \A p \in DOMAIN final_assignment_df[sl] :
            LET names == CellNames(final_assignment_df[sl][p])
            IN  \A i, j \in DOMAIN names : names[i] = names[j] => i = j

====
